---- MODULE Spec2Model ----
(***************************************************************************)
(* Model of ImageProcessorThread (src/main.py): the pixel-to-markup        *)
(* encoding pass.  A markup string is modelled as the sequence of its      *)
(* lexical parts (size markers, colour blocks, runs of full-width spaces); *)
(* a colour tag `<color=#...>` is modelled as the sequence of its hex      *)
(* digits, so two tags are equal exactly when their strings are equal.     *)
(***************************************************************************)
EXTENDS Integers, Sequences, FiniteSets, TLC

\* ---------------------------------------------------------------- bounds
MaxPixels == 3        \* largest image area W*H explored
MaxH == 2             \* largest image height explored
MaxPixelLimit == 2    \* largest pixel_segment_size explored
MaxRuns == 2          \* most invocations of run() on one thread object explored
MaxRowW == 2          \* widest image explored when both builders are compared
MaxCharLimit == 54    \* largest char_segment_size explored when both are compared
MaxPages == 3         \* most result pages explored in the window

\* ------------------------------------------------------- program constants
CloseColorLen == 8    \* len('</color>')
OpenSizeLen == 7      \* len('<size=>') around the number
CloseSizeLen == 7     \* len('</size>')
ColorTagLen == 9      \* len('<color=#>') around the hex digits
items_per_page == 5   \* self.items_per_page

VARIABLES
    cfg,                    \* constructor arguments kept on self (after clamping)
    image,                  \* the file at image_path, as the image source decodes it
    pc,                     \* position of run(): "new", "rows", "finished", "error" ("idle": no worker yet)
    has_alpha, img_w, img_h, pixels, total_pixels,
    preview,
    current_x, current_y,
    total_processed_pixels,
    line_segment_counter,
    final_segments, line_end_markers, segment_line_mapping, segment_labels,
    seg_pixel_counts,       \* pixel_count_in_seg returned for each appended segment
    seg_start_x,            \* current_x at the call that produced each appended segment
    signals,                \* the signals emitted so far, in order
    runs,                   \* invocations of run() on this object so far
    earlier,                \* what the first finished pass of this object emitted
    gui                     \* the window: its fields and the widgets the handlers set

vars == <<cfg, image, pc, has_alpha, img_w, img_h, pixels, total_pixels, preview,
          current_x, current_y, total_processed_pixels, line_segment_counter,
          final_segments, line_end_markers, segment_line_mapping, segment_labels,
          seg_pixel_counts, seg_start_x, signals, runs, earlier, gui>>

\* ------------------------------------------------------------------ helpers
None == <<>>                      \* Python None for a colour tag / colour tuple

Max(a, b) == IF a >= b THEN a ELSE b

Abs(n) == IF n < 0 THEN -n ELSE n

NumDigits(n) == IF n < 10 THEN 1 ELSE IF n < 100 THEN 2 ELSE 3

\* ---- markup strings as sequences of parts
SizeOpen(n) == <<[k |-> "size_open", tag |-> None, n |-> n]>>
SizeClose == <<[k |-> "size_close", tag |-> None, n |-> 0]>>
Block(tag, n) == <<[k |-> "color", tag |-> tag, n |-> n]>>
Glyphs(n) == IF n = 0 THEN <<>> ELSE <<[k |-> "glyph", tag |-> None, n |-> n]>>
Spaces(n) == IF n = 0 THEN <<>> ELSE <<[k |-> "space", tag |-> None, n |-> n]>>

\* string concatenation: adjacent runs of the same bare character are one run
Cat(s, t) ==
    IF s = <<>> THEN t
    ELSE IF t = <<>> THEN s
    ELSE LET a == s[Len(s)]
             b == t[1]
         IN IF a.k = b.k /\ a.k \in {"space", "glyph"}
            THEN SubSeq(s, 1, Len(s) - 1)
                   \o <<[k |-> a.k, tag |-> None, n |-> a.n + b.n]>>
                   \o SubSeq(t, 2, Len(t))
            ELSE s \o t

PartLen(p) ==
    CASE p.k = "size_open" -> OpenSizeLen + NumDigits(p.n)
      [] p.k = "size_close" -> CloseSizeLen
      [] p.k = "color" -> ColorTagLen + Len(p.tag) + p.n + CloseColorLen
      [] OTHER -> p.n

RECURSIVE StrLen(_)
StrLen(s) == IF s = <<>> THEN 0 ELSE PartLen(s[1]) + StrLen(Tail(s))

\* len(color_tag) for a tag string
TagLen(tag) == ColorTagLen + Len(tag)

\* ---- self.font_start / self.font_end / self.font_tag_len
font_start == IF cfg.font_size > 0 THEN SizeOpen(cfg.font_size) ELSE <<>>
font_end == IF cfg.font_size > 0 THEN SizeClose ELSE <<>>
font_tag_len == StrLen(font_start) + StrLen(font_end)

\* ---- hex formatting
\* Hex1 rounding to the nearest digit instead of truncating (faulty variant)
Hex1_rounded(v) == <<IF v >= 248 THEN 15 ELSE (v + 8) \div 16>>

Hex1(v) == <<v \div 16>>                  \* f'{(v//16):01x}'
Hex2(v) == <<v \div 16, v % 16>>          \* f'{v:02x}'

\* are_colors_similar with a strict comparison (faulty variant)
are_colors_similar_strict(color1, color2) ==
    IF ~cfg.merge_similar THEN FALSE
    ELSE LET rgb == Abs(color1[1] - color2[1]) + Abs(color1[2] - color2[2])
                      + Abs(color1[3] - color2[3])
             total_diff == IF Len(color1) = 4 /\ Len(color2) = 4
                           THEN rgb + Abs(color1[4] - color2[4])
                           ELSE rgb
         IN total_diff < cfg.similarity_threshold

are_colors_similar(color1, color2) ==
    IF ~cfg.merge_similar THEN FALSE
    ELSE LET rgb == Abs(color1[1] - color2[1]) + Abs(color1[2] - color2[2])
                      + Abs(color1[3] - color2[3])
             total_diff == IF Len(color1) = 4 /\ Len(color2) = 4
                           THEN rgb + Abs(color1[4] - color2[4])
                           ELSE rgb
         IN total_diff <= cfg.similarity_threshold

get_simplified_color(r, g, b) ==
    IF cfg.minimal_color
    THEN <<(r \div 16) * 16, (g \div 16) * 16, (b \div 16) * 16>>
    ELSE <<r, g, b>>

\* get_original_color_tag with the a = 0 case under the keep_above_alpha switch
\* (faulty variant)
get_original_color_tag_zero_alpha_switched(r, g, b, a) ==
    LET is_transparent == has_alpha /\ a < cfg.alpha_threshold
        rgb1 == Hex1(r) \o Hex1(g) \o Hex1(b)
        rgb2 == Hex2(r) \o Hex2(g) \o Hex2(b)
    IN IF cfg.trans_opt = 1 /\ is_transparent THEN <<0, 0, 0, 0>>
       ELSE IF a < 255
            THEN IF cfg.keep_above_alpha
                 THEN IF cfg.minimal_color THEN rgb1 \o Hex1(a) ELSE rgb2 \o Hex2(a)
                 ELSE IF cfg.minimal_color THEN rgb1 ELSE rgb2
       ELSE IF cfg.minimal_color THEN rgb1 ELSE rgb2

get_original_color_tag(r, g, b, a) ==
    LET is_transparent == has_alpha /\ a < cfg.alpha_threshold
        is_fully_transparent == has_alpha /\ a = 0
        rgb1 == Hex1(r) \o Hex1(g) \o Hex1(b)
        rgb2 == Hex2(r) \o Hex2(g) \o Hex2(b)
    IN IF cfg.trans_opt = 1 /\ is_transparent THEN <<0, 0, 0, 0>>
       ELSE IF is_fully_transparent
            THEN IF cfg.minimal_color THEN rgb1 \o <<0>> ELSE rgb2 \o <<0, 0>>
       ELSE IF 0 < a /\ a < 255
            THEN IF cfg.keep_above_alpha
                 THEN IF cfg.minimal_color THEN rgb1 \o Hex1(a) ELSE rgb2 \o Hex2(a)
                 ELSE IF cfg.minimal_color THEN rgb1 ELSE rgb2
       ELSE IF cfg.minimal_color THEN rgb1 ELSE rgb2

\* QColor(self.custom_color) as <<r, g, b, a>>
CustomQColor ==
    IF Len(cfg.custom_color) = 6
    THEN <<cfg.custom_color[1] * 16 + cfg.custom_color[2],
           cfg.custom_color[3] * 16 + cfg.custom_color[4],
           cfg.custom_color[5] * 16 + cfg.custom_color[6], 255>>
    ELSE <<cfg.custom_color[1] * 17, cfg.custom_color[2] * 17,
           cfg.custom_color[3] * 17, 255>>

\* get_custom_color_tag that never shortens the colour (faulty variant)
get_custom_color_tag_unquantized == cfg.custom_color

\* custom_color is the digit string after '#': 6 digits for #RRGGBB
get_custom_color_tag ==
    IF cfg.minimal_color /\ Len(cfg.custom_color) = 6
    THEN LET c == CustomQColor
         IN Hex1(c[1]) \o Hex1(c[2]) \o Hex1(c[3])
    ELSE cfg.custom_color

\* the colour update_preview writes with setPixelColor
update_preview(r, g, b, a0, current_color_rgba) ==
    LET is_transparent == has_alpha /\ a0 < cfg.alpha_threshold
        is_fully_transparent == has_alpha /\ a0 = 0
        a == IF ~cfg.keep_above_alpha /\ has_alpha /\ a0 > cfg.alpha_threshold
             THEN 255 ELSE a0
    IN IF is_fully_transparent THEN <<r, g, b, 0>>
       ELSE IF is_transparent
            THEN IF cfg.trans_opt = 1 THEN <<0, 0, 0, 0>>
                 ELSE IF cfg.trans_opt = 0
                      THEN IF cfg.minimal_color /\ Len(cfg.custom_color) = 6
                           THEN <<(CustomQColor[1] \div 16) * 16,
                                  (CustomQColor[2] \div 16) * 16,
                                  (CustomQColor[3] \div 16) * 16, 255>>
                           ELSE CustomQColor
                 ELSE <<0, 0, 0, 0>>
       ELSE IF cfg.merge_similar /\ current_color_rgba # None
            THEN LET s == get_simplified_color(current_color_rgba[1],
                                               current_color_rgba[2],
                                               current_color_rgba[3])
                     sa0 == IF Len(current_color_rgba) = 4
                            THEN current_color_rgba[4] ELSE 255
                     sa == IF ~cfg.keep_above_alpha /\ has_alpha
                              /\ sa0 > cfg.alpha_threshold
                           THEN 255 ELSE sa0
                 IN s \o <<sa>>
       ELSE get_simplified_color(r, g, b) \o <<a>>

\* self.pixels[x, y] (0-based)
PixelAt(x, y) == pixels[y + 1][x + 1]

AlphaOf(p) == IF has_alpha THEN p[4] ELSE 255

\* the colour tag chosen for a pixel by both segment builders (None = spaces)
color_tag_of(p) ==
    LET a == AlphaOf(p)
        is_transparent == has_alpha /\ a < cfg.alpha_threshold
    IN IF is_transparent
       THEN IF cfg.trans_opt = 2 THEN None
            ELSE IF cfg.trans_opt = 1 THEN get_original_color_tag(p[1], p[2], p[3], a)
            ELSE get_custom_color_tag
       ELSE get_original_color_tag(p[1], p[2], p[3], a)

\* ---- shared by both segment builders
\* "same colour or similar colour": the pixel joins the open run
joins_run(color_tag, p, tag, rgba) ==
    color_tag = tag \/ (tag # None /\ are_colors_similar(rgba, p))

\* close_run without the branch for runs of spaces (faulty variant)
close_run_no_spaces(parts, tag, cnt, started) ==
    IF tag # None THEN Cat(parts, Block(tag, cnt)) ELSE parts

\* close_run writing one space for each pixel of a run without tag (faulty variant)
close_run_one_space_per_pixel(parts, tag, cnt, started) ==
    IF tag # None THEN Cat(parts, Block(tag, cnt))
    ELSE IF cfg.trans_opt = 2 /\ started THEN Cat(parts, Spaces(cnt))
    ELSE parts

\* the open run is written out: a colour block, or spaces for a run without tag;
\* started is color_pixel_count > 0 (pixel rule) or pixel_count_in_seg > 0 (char rule)
close_run(parts, tag, cnt, started) ==
    IF tag # None THEN Cat(parts, Block(tag, cnt))
    ELSE IF cfg.trans_opt = 2 /\ started THEN Cat(parts, Spaces(cnt * cfg.space_count))
    ELSE parts

\* the pixel is below the alpha threshold
below_threshold(p) == has_alpha /\ AlphaOf(p) < cfg.alpha_threshold

\* merge_pixel that moves the colour of the run to each pixel merged into it
\* (faulty variant)
merge_pixel_drifting(st, p, color_tag, same, started) ==
    [st EXCEPT !.parts = IF same THEN st.parts
                         ELSE close_run(st.parts, st.tag, st.cnt, started),
               !.tag = IF same THEN st.tag ELSE color_tag,
               !.rgba = IF color_tag # None THEN p ELSE None,
               !.cnt = IF same THEN st.cnt + 1 ELSE 1]

\* "same colour or similar colour", else the open run is closed and a new one
\* opened; st holds the locals of the builder
merge_pixel(st, p, color_tag, same, started) ==
    [st EXCEPT !.parts = IF same THEN st.parts
                         ELSE close_run(st.parts, st.tag, st.cnt, started),
               !.tag = IF same THEN st.tag ELSE color_tag,
               !.rgba = IF same THEN st.rgba
                        ELSE IF color_tag # None THEN p ELSE None,
               !.cnt = IF same THEN st.cnt + 1 ELSE 1]

\* self.update_preview(self.current_x, self.current_y, r, g, b, a, current_color_rgba)
paint_pixel(st, p) ==
    [st EXCEPT !.pv = [st.pv EXCEPT ![current_y + 1][st.x + 1] =
                         update_preview(p[1], p[2], p[3], AlphaOf(p), st.rgba)]]

\* self.current_x += 1 and the pixel count of the segment += 1
advance(st) == [st EXCEPT !.x = st.x + 1, !.n = st.n + 1]

\* pixel_budget_left with the comparison off by one (faulty variant)
pixel_budget_left_inclusive(n) == n <= cfg.pixel_limit

\* while ... current_pixel_count < self.pixel_limit
pixel_budget_left(n) == n < cfg.pixel_limit

\* ---- process_pixel_segment: the loop over pixels
RECURSIVE pixel_segment_loop(_)

\* one pixel of the loop body, then the end-of-row test and the next iteration
pixel_segment_step(st, p, color_tag) ==
    LET next_iteration(nxt) ==
            IF nxt.x >= img_w THEN [nxt EXCEPT !.is_line_end = TRUE]
            ELSE pixel_segment_loop(nxt)
    IN next_iteration(
           advance(paint_pixel(
               merge_pixel(st, p, color_tag,
                           joins_run(color_tag, p, st.tag, st.rgba), st.cnt > 0),
               p)))

pixel_segment_loop(st) ==
    IF ~(current_y < img_h /\ pixel_budget_left(st.n)) THEN st
    ELSE IF st.x >= img_w THEN [st EXCEPT !.is_line_end = TRUE]
    ELSE pixel_segment_step(st, PixelAt(st.x, current_y),
                            color_tag_of(PixelAt(st.x, current_y)))

\* the last run and the closing size marker, and the values returned
pixel_segment_result(st) ==
    [segment |-> Cat(close_run(st.parts, st.tag, st.cnt, st.cnt > 0), font_end),
     is_line_end |-> st.is_line_end,
     count |-> st.n, x |-> st.x, pv |-> st.pv]

\* process_pixel_segment: [text, is_line_end, count] plus the new current_x, preview
process_pixel_segment ==
    pixel_segment_result(
        pixel_segment_loop([x |-> current_x, n |-> 0, parts |-> font_start,
                            tag |-> None, rgba |-> None, cnt |-> 0,
                            pv |-> preview, is_line_end |-> FALSE]))

\* ---- process_char_segment_line_safe
\* add_char_count that leaves the closing tag out of a new run (faulty variant)
add_char_count_no_close(same, is_transparent, color_tag) ==
    IF same
    THEN IF is_transparent /\ cfg.trans_opt = 2 THEN cfg.space_count ELSE 1
    ELSE IF is_transparent /\ cfg.trans_opt = 2 THEN cfg.space_count
    ELSE IF color_tag # None THEN TagLen(color_tag) + 1
    ELSE 1

\* the characters the pixel adds to the segment
add_char_count(same, is_transparent, color_tag) ==
    IF same
    THEN IF is_transparent /\ cfg.trans_opt = 2 THEN cfg.space_count ELSE 1
    ELSE IF is_transparent /\ cfg.trans_opt = 2 THEN cfg.space_count
    ELSE IF color_tag # None THEN TagLen(color_tag) + 1 + CloseColorLen
    ELSE 1

\* the text of a single pixel on the forced path
forced_text(is_transparent, color_tag) ==
    IF is_transparent /\ cfg.trans_opt = 2 THEN Spaces(cfg.space_count)
    ELSE IF color_tag # None THEN Block(color_tag, 1)
    ELSE Glyphs(1)

\* forced_pixel that includes the pixel without counting it (faulty variant)
forced_pixel_uncounted(st, p) ==
    [st EXCEPT !.parts = Cat(Cat(st.parts,
                                 forced_text(below_threshold(p), color_tag_of(p))),
                             font_end),
               !.pv = paint_pixel(st, p).pv,
               !.x = st.x + 1]

\* forced_pixel that stops the segment before the pixel (faulty variant)
forced_pixel_skipped(st, p) == st

\* the first pixel of the segment is over the limit: it is included anyway
forced_pixel(st, p) ==
    [st EXCEPT !.parts = Cat(Cat(st.parts,
                                 forced_text(below_threshold(p), color_tag_of(p))),
                             font_end),
               !.n = 1,
               !.pv = paint_pixel(st, p).pv,
               !.x = st.x + 1]

RECURSIVE char_segment_loop(_)

\* one pixel of the loop body: its cost, the limit test, the merge
char_segment_step(st, p, color_tag, same) ==
    LET decide(new_char_count) ==
            IF new_char_count > cfg.char_limit
            THEN IF st.n = 0 THEN forced_pixel(st, p) ELSE st
            ELSE char_segment_loop(
                     advance(paint_pixel(
                         [merge_pixel(st, p, color_tag, same, st.n > 0)
                             EXCEPT !.chars = new_char_count],
                         p)))
    IN decide(st.chars + add_char_count(same, below_threshold(p), color_tag))

char_segment_loop(st) ==
    IF ~(st.x < img_w) THEN st
    ELSE LET with_tag(p, color_tag) ==
                 char_segment_step(st, p, color_tag,
                                   joins_run(color_tag, p, st.tag, st.rgba))
         IN with_tag(PixelAt(st.x, current_y), color_tag_of(PixelAt(st.x, current_y)))

\* the last run and the closing size marker, and the values returned
char_segment_result(st) ==
    [segment |-> Cat(close_run(st.parts, st.tag, st.cnt, st.n > 0), font_end),
     is_line_end |-> st.x >= img_w,
     count |-> st.n, x |-> st.x, pv |-> st.pv,
     chars |-> st.chars]          \* current_char_count when the loop was left

process_char_segment_line_safe ==
    char_segment_result(
        char_segment_loop([x |-> current_x, n |-> 0, chars |-> font_tag_len,
                           parts |-> font_start, tag |-> None, rgba |-> None,
                           cnt |-> 0, pv |-> preview]))

\* ------------------------------------------------------------- the window
\* ImageToRichTextApp after __init__ and init_ui; shown holds the indices of the
\* segments in the result area, delivered counts the signals of the worker
\* whose slots have run, in_flight the workers started whose on_finish or
\* on_error has not run
GuiStart ==
    [process_btn |-> TRUE, preview_btn |-> FALSE, progress_bar |-> 0,
     results |-> <<>>, total_pages |-> 0, current_page |-> 0,
     page_spin |-> 1, spin_max |-> 999, prev_btn |-> FALSE, next_btn |-> FALSE,
     shown |-> <<>>, delivered |-> 0, in_flight |-> 0, last |-> "none"]

Min(a, b) == IF a <= b THEN a ELSE b

\* clear_results: the result area is emptied
clear_results(g) == [g EXCEPT !.shown = <<>>]

RECURSIVE display_page(_, _)
RECURSIVE update_page_navigation(_)
RECURSIVE on_page_spin_changed(_, _)

\* QSpinBox.setRange(1, hi): a value above the new maximum is set to it, and
\* the change is signalled to on_page_spin_changed before setRange returns
SpinSetRange(g, hi) ==
    IF g.page_spin > hi
    THEN on_page_spin_changed([g EXCEPT !.spin_max = hi, !.page_spin = hi], hi)
    ELSE [g EXCEPT !.spin_max = hi]

\* QSpinBox.setValue(v): the value is kept in the range; a change is signalled
\* to on_page_spin_changed before setValue returns
SpinSetValue(g, v) ==
    LET SetTo(w) == IF w = g.page_spin THEN g
                    ELSE on_page_spin_changed([g EXCEPT !.page_spin = w], w)
    IN SetTo(Max(1, Min(v, g.spin_max)))

on_page_spin_changed(g, value) ==
    IF g.total_pages = 0 THEN g
    ELSE IF 0 <= value - 1 /\ value - 1 < g.total_pages /\ value - 1 # g.current_page
         THEN display_page([g EXCEPT !.current_page = value - 1], value - 1)
         ELSE g

update_page_navigation(g) ==
    IF g.total_pages = 0
    THEN [SpinSetValue(SpinSetRange(g, 999), 1) EXCEPT !.prev_btn = FALSE,
                                                        !.next_btn = FALSE]
    ELSE LET Buttons(h) == [h EXCEPT !.prev_btn = h.current_page > 0,
                                     !.next_btn = h.current_page < h.total_pages - 1]
             Value(h) == SpinSetValue(h, h.current_page + 1)
         IN Buttons(Value(SpinSetRange(g, Min(g.total_pages, 999))))

display_page(g, page_number) ==
    IF g.results = <<>> THEN clear_results(g)
    ELSE update_page_navigation(
             [g EXCEPT !.shown =
                 [k \in 1..(Min(page_number * items_per_page + items_per_page,
                                Len(g.results)) - page_number * items_per_page)
                    |-> page_number * items_per_page + k - 1]])

prev_page(g) ==
    IF g.current_page > 0
    THEN display_page([g EXCEPT !.current_page = g.current_page - 1], g.current_page - 1)
    ELSE g

next_page(g) ==
    IF g.current_page < g.total_pages - 1
    THEN display_page([g EXCEPT !.current_page = g.current_page + 1], g.current_page + 1)
    ELSE g

\* on_finish: the fields and widgets set from the arguments of processing_finished
on_finish(g, segments) ==
    LET Stored == [g EXCEPT !.results = segments,
                            !.total_pages = (Len(segments) + items_per_page - 1)
                                               \div items_per_page,
                            !.current_page = 0]
        FirstPage(h) == display_page([h EXCEPT !.preview_btn = TRUE], 0)
    IN [FirstPage(update_page_navigation(Stored)) EXCEPT !.process_btn = TRUE]

on_error(g) == [g EXCEPT !.process_btn = TRUE, !.progress_bar = 0]

\* process_img that leaves the start button enabled (faulty variant)
disable_buttons_preview_only(g) ==
    [g EXCEPT !.preview_btn = FALSE, !.progress_bar = 0]

\* process_img: the buttons are disabled and the progress bar is reset
disable_buttons(g) ==
    [g EXCEPT !.process_btn = FALSE, !.preview_btn = FALSE, !.progress_bar = 0]

update_progress(g, value) == [g EXCEPT !.progress_bar = value]

\* ------------------------------------------------------------ input domains
\* pixels of files with an alpha channel: alpha at the threshold, just below it
\* (one channel step away), and fully transparent; opaque pixels are those of
\* the files without alpha
AlphaPalette == {<<255, 0, 0, 128>>, <<255, 0, 0, 127>>, <<0, 0, 0, 0>>}
\* pixels of files without alpha: three colours each one channel step from the
\* next (the first and the third two steps apart), and a distant one
RgbPalette == {<<255, 0, 0>>, <<254, 0, 0>>, <<253, 0, 0>>, <<0, 0, 255>>}

Shapes == {s \in (1..MaxPixels) \X (1..MaxH) : s[1] * s[2] <= MaxPixels}

Images ==
    UNION {UNION {{[ok |-> TRUE, alpha |-> al, w |-> s[1], h |-> s[2], px |-> px] :
                      px \in [1..s[2] -> [1..s[1] -> IF al THEN AlphaPalette
                                                     ELSE RgbPalette]]} :
                  s \in Shapes} : al \in BOOLEAN}

Unreadable == [ok |-> FALSE, alpha |-> FALSE, w |-> 0, h |-> 0, px |-> <<>>]

DefaultCustomColor == <<8, 8, 8, 8, 8, 8>>     \* "#888888"

\* the values requested for char_segment_size: below any pixel's cost, room for
\* two single spaces but for no colour tag, and room for one run of full-length
\* tags (two of short tags) inside the size markers
CharSizes == {0, 2, 45}

\* Colour settings.  With alpha_threshold 0 no pixel is below the threshold and
\* with a file without alpha no pixel has alpha, so the settings that only
\* below-threshold or alpha pixels read are enumerated once there.
ColourConfigs(al) ==
    {c \in [trans_opt : 0..2, minimal_color : BOOLEAN, merge_similar : BOOLEAN,
            alpha_threshold : {0, 128}, keep_above_alpha : BOOLEAN,
            space_count_arg : {0, 2}] :
        /\ (c.trans_opt # 2 => c.space_count_arg = 0)
        /\ (c.alpha_threshold = 0 => c.trans_opt = 0)
        /\ (~al => c.alpha_threshold = 128 /\ c.trans_opt = 0 /\ c.keep_above_alpha)}

\* Segmentation settings: only the limit of the selected rule is varied; the
\* requested pixel_segment_size may be zero or negative.  The pixel rule reads
\* font_size for the size markers only, so a font size is given with the
\* largest pixel limit; under the char rule the size markers alone exceed a
\* char_segment_size of 2 as they exceed 0, so a font size is given with 0 and 45.
SegmentConfigs ==
    {c \in [font_size : {0, 5}, segment_rule : {0, 1},
            pixel_segment_size : -1..MaxPixelLimit, char_segment_size : CharSizes] :
        /\ (c.segment_rule = 0 => c.char_segment_size = 45)
        /\ (c.segment_rule = 1 => c.pixel_segment_size = MaxPixelLimit)
        /\ (c.segment_rule = 0 /\ c.font_size > 0 => c.pixel_segment_size = MaxPixelLimit)
        /\ (c.segment_rule = 1 /\ c.font_size > 0 => c.char_segment_size # 2)}

\* Config without the clamping of the limits (faulty variant)
Config_unclamped(c, s) ==
    [trans_opt |-> c.trans_opt, custom_color |-> DefaultCustomColor,
     font_size |-> s.font_size, segment_rule |-> s.segment_rule,
     pixel_limit |-> s.pixel_segment_size,
     char_limit |-> s.char_segment_size,
     minimal_color |-> c.minimal_color, merge_similar |-> c.merge_similar,
     similarity_threshold |-> 1, alpha_threshold |-> c.alpha_threshold,
     keep_above_alpha |-> c.keep_above_alpha,
     space_count |-> c.space_count_arg]

\* __init__: the fields set from the arguments
Config(c, s) ==
    [trans_opt |-> c.trans_opt, custom_color |-> DefaultCustomColor,
     font_size |-> s.font_size, segment_rule |-> s.segment_rule,
     pixel_limit |-> Max(s.pixel_segment_size, 1),
     char_limit |-> Max(s.char_segment_size, 1),
     minimal_color |-> c.minimal_color, merge_similar |-> c.merge_similar,
     similarity_threshold |-> 1, alpha_threshold |-> c.alpha_threshold,
     keep_above_alpha |-> c.keep_above_alpha,
     space_count |-> Max(c.space_count_arg, 1)]

\* ------------------------------------------------------------------- Init
\* __init__
Init ==
    /\ image \in Images \cup {Unreadable}
    /\ cfg \in {Config(c, s) : c \in ColourConfigs(image.alpha), s \in SegmentConfigs}
    /\ pc = "new"
    /\ has_alpha = FALSE
    /\ img_w = 0
    /\ img_h = 0
    /\ pixels = <<>>
    /\ total_pixels = 0
    /\ preview = <<>>
    /\ current_x = 0
    /\ current_y = 0
    /\ total_processed_pixels = 0
    /\ line_segment_counter = <<>>
    /\ final_segments = <<>>
    /\ line_end_markers = <<>>
    /\ segment_line_mapping = <<>>
    /\ segment_labels = <<>>
    /\ seg_pixel_counts = <<>>
    /\ seg_start_x = <<>>
    /\ signals = <<>>
    /\ runs = 1
    /\ earlier = <<>>
    /\ gui = GuiStart

Emit(sig, val) == Append(signals, [sig |-> sig, val |-> val])

\* Progress with the ratio upside down (faulty variant)
Progress_inverted(processed, total) == (total * 100) \div processed

\* int((processed / total) * 100); processed is a whole number of rows, and for
\* the image heights explored the float product truncates to this quotient
Progress(processed, total) == (processed * 100) \div total

\* RunLoad without the reset of the per-row ordinal table (faulty variant)
RunLoad_keeps_ordinals ==
    /\ pc = "new"
    /\ image.ok
    /\ has_alpha' = image.alpha
    /\ img_w' = image.w
    /\ img_h' = image.h
    /\ pixels' = image.px
    /\ total_pixels' = image.w * image.h
    /\ preview' = [y \in 1..image.h |-> [x \in 1..image.w |-> <<0, 0, 0, 0>>]]
    /\ final_segments' = <<>>
    /\ line_end_markers' = <<>>
    /\ segment_line_mapping' = <<>>
    /\ current_x' = 0
    /\ current_y' = 0
    /\ total_processed_pixels' = 0
    /\ segment_labels' = <<>>
    /\ seg_pixel_counts' = <<>>
    /\ seg_start_x' = <<>>
    /\ pc' = "rows"
    /\ UNCHANGED <<cfg, image, signals, runs, earlier, gui, line_segment_counter>>

\* run(): Image.open ... reset of the counters, up to the row loop
RunLoad ==
    /\ pc = "new"
    /\ image.ok
    /\ has_alpha' = image.alpha
    /\ img_w' = image.w
    /\ img_h' = image.h
    /\ pixels' = image.px
    /\ total_pixels' = image.w * image.h
    /\ preview' = [y \in 1..image.h |-> [x \in 1..image.w |-> <<0, 0, 0, 0>>]]
    /\ final_segments' = <<>>
    /\ line_end_markers' = <<>>
    /\ segment_line_mapping' = <<>>
    /\ current_x' = 0
    /\ current_y' = 0
    /\ total_processed_pixels' = 0
    /\ line_segment_counter' = <<>>
    /\ segment_labels' = <<>>
    /\ seg_pixel_counts' = <<>>
    /\ seg_start_x' = <<>>
    /\ pc' = "rows"
    /\ UNCHANGED <<cfg, image, signals, runs, earlier, gui>>

\* run(): Image.open raises, the except clause reports it
RunLoadFail ==
    /\ pc = "new"
    /\ ~image.ok
    /\ signals' = Emit("error", 0)
    /\ pc' = "error"
    /\ UNCHANGED <<cfg, image, has_alpha, img_w, img_h, pixels, total_pixels, preview,
                   current_x, current_y, total_processed_pixels, line_segment_counter,
                   final_segments, line_end_markers, segment_line_mapping,
                   segment_labels, seg_pixel_counts, seg_start_x, runs, earlier, gui>>

\* KeepSegment adding one to the pixel total for each segment (faulty variant)
KeepSegment_counts_segments(res, start_x, current_line, current_segment_idx) ==
    /\ current_x' = res.x
    /\ preview' = res.pv
    /\ IF res.segment # <<>>
       THEN /\ final_segments' = Append(final_segments, res.segment)
            /\ segment_line_mapping' = Append(segment_line_mapping, current_line)
            /\ segment_labels' =
                  Append(segment_labels, <<current_line, current_segment_idx>>)
            /\ total_processed_pixels' = total_processed_pixels + 1
            /\ seg_pixel_counts' = Append(seg_pixel_counts, res.count)
            /\ seg_start_x' = Append(seg_start_x, start_x)
       ELSE UNCHANGED <<final_segments, segment_line_mapping, segment_labels,
                        total_processed_pixels, seg_pixel_counts, seg_start_x>>

\* run(): "if segment:" and the appends for the segment a builder returned
KeepSegment(res, start_x, current_line, current_segment_idx) ==
    /\ current_x' = res.x
    /\ preview' = res.pv
    /\ IF res.segment # <<>>
       THEN /\ final_segments' = Append(final_segments, res.segment)
            /\ segment_line_mapping' = Append(segment_line_mapping, current_line)
            /\ segment_labels' =
                  Append(segment_labels, <<current_line, current_segment_idx>>)
            /\ total_processed_pixels' = total_processed_pixels + res.count
            /\ seg_pixel_counts' = Append(seg_pixel_counts, res.count)
            /\ seg_start_x' = Append(seg_start_x, start_x)
       ELSE UNCHANGED <<final_segments, segment_line_mapping, segment_labels,
                        total_processed_pixels, seg_pixel_counts, seg_start_x>>

\* self.line_segment_counter[current_line] after "+= 1" (0 when the row is new)
NextSegmentIdx(current_line) ==
    IF current_line \in DOMAIN line_segment_counter
    THEN line_segment_counter[current_line] + 1 ELSE 1

\* run(): one iteration of the inner loop, one segment of the current row
ProcessSegment ==
    /\ pc = "rows"
    /\ current_y < img_h
    /\ current_x < img_w
    /\ line_segment_counter' =
          [l \in DOMAIN line_segment_counter \cup {current_y + 1} |->
              IF l = current_y + 1 THEN NextSegmentIdx(current_y + 1)
              ELSE line_segment_counter[l]]
    /\ KeepSegment(IF cfg.segment_rule = 0 THEN process_pixel_segment
                   ELSE process_char_segment_line_safe,
                   current_x, current_y + 1, NextSegmentIdx(current_y + 1))
    /\ UNCHANGED <<cfg, image, pc, has_alpha, img_w, img_h, pixels, total_pixels,
                   current_y, line_end_markers, signals, runs, earlier, gui>>

\* EndOfRow with the marker one past the last segment (faulty variant)
EndOfRow_marker_off_by_one ==
    /\ pc = "rows"
    /\ current_y < img_h
    /\ current_x >= img_w
    /\ line_end_markers' = IF final_segments # <<>>
                           THEN Append(line_end_markers, Len(final_segments))
                           ELSE line_end_markers
    /\ current_x' = 0
    /\ current_y' = current_y + 1
    /\ signals' = Emit("progress", Progress((current_y + 1) * img_w + 0, total_pixels))
    /\ UNCHANGED <<cfg, image, pc, has_alpha, img_w, img_h, pixels, total_pixels,
                   preview, total_processed_pixels, line_segment_counter,
                   final_segments, segment_line_mapping, segment_labels,
                   seg_pixel_counts, seg_start_x, runs, earlier, gui>>

\* run(): the row is complete: mark its last segment, next row, report progress
EndOfRow ==
    /\ pc = "rows"
    /\ current_y < img_h
    /\ current_x >= img_w
    /\ line_end_markers' = IF final_segments # <<>>
                           THEN Append(line_end_markers, Len(final_segments) - 1)
                           ELSE line_end_markers
    /\ current_x' = 0
    /\ current_y' = current_y + 1
    /\ signals' = Emit("progress", Progress((current_y + 1) * img_w + 0, total_pixels))
    /\ UNCHANGED <<cfg, image, pc, has_alpha, img_w, img_h, pixels, total_pixels,
                   preview, total_processed_pixels, line_segment_counter,
                   final_segments, segment_line_mapping, segment_labels,
                   seg_pixel_counts, seg_start_x, runs, earlier, gui>>

\* run(): after the last row
Finish ==
    /\ pc = "rows"
    /\ current_y >= img_h
    /\ signals' = Append(Emit("progress", 100),
                         [sig |-> "finished", val |-> total_processed_pixels])
    /\ pc' = "finished"
    /\ UNCHANGED <<cfg, image, has_alpha, img_w, img_h, pixels, total_pixels, preview,
                   current_x, current_y, total_processed_pixels, line_segment_counter,
                   final_segments, line_end_markers, segment_line_mapping,
                   segment_labels, seg_pixel_counts, seg_start_x, runs, earlier, gui>>

\* RaiseInRow with the exception swallowed (faulty variant)
RaiseInRow_swallowed ==
    /\ pc = "rows"
    /\ current_y < img_h
    /\ current_x < img_w
    /\ pc' = "error"
    /\ UNCHANGED <<cfg, image, has_alpha, img_w, img_h, pixels, total_pixels, preview,
                   current_x, current_y, total_processed_pixels, line_segment_counter,
                   final_segments, line_end_markers, segment_line_mapping,
                   segment_labels, seg_pixel_counts, seg_start_x, signals, runs, earlier, gui>>

\* run(): an exception raised while the rows are processed reaches the except clause
RaiseInRow ==
    /\ pc = "rows"
    /\ current_y < img_h
    /\ current_x < img_w
    /\ signals' = Emit("error", 0)
    /\ pc' = "error"
    /\ UNCHANGED <<cfg, image, has_alpha, img_w, img_h, pixels, total_pixels, preview,
                   current_x, current_y, total_processed_pixels, line_segment_counter,
                   final_segments, line_end_markers, segment_line_mapping,
                   segment_labels, seg_pixel_counts, seg_start_x, runs, earlier, gui>>

Next ==
    \/ RunLoad
    \/ RunLoadFail
    \/ ProcessSegment
    \/ EndOfRow
    \/ Finish
    \/ RaiseInRow

Spec == Init /\ [][Next]_vars

\* ---------------------------------------------- run() invoked more than once
\* what processing_finished carries: the lists, the pixel total and the preview
Outputs ==
    [final_segments |-> final_segments, line_end_markers |-> line_end_markers,
     segment_line_mapping |-> segment_line_mapping,
     total_processed_pixels |-> total_processed_pixels,
     preview |-> preview, segment_labels |-> segment_labels]

\* run() has returned and is invoked again on the same object: every field is
\* as the earlier pass left it
RunAgain ==
    /\ pc \in {"finished", "error"}
    /\ runs < MaxRuns
    /\ runs' = runs + 1
    /\ earlier' = IF pc = "finished" /\ earlier = <<>> THEN <<Outputs>> ELSE earlier
    /\ pc' = "new"
    /\ UNCHANGED <<cfg, image, has_alpha, img_w, img_h, pixels, total_pixels, preview,
                   current_x, current_y, total_processed_pixels, line_segment_counter,
                   final_segments, line_end_markers, segment_line_mapping,
                   segment_labels, seg_pixel_counts, seg_start_x, signals, gui>>

\* the colour setting that varies here is the policy for low alpha
RerunInit ==
    /\ Init
    /\ ~cfg.minimal_color
    /\ ~cfg.merge_similar
    /\ cfg.keep_above_alpha
    /\ cfg.alpha_threshold = 128

RerunNext ==
    \/ Next
    \/ RunAgain

RerunSpec == RerunInit /\ [][RerunNext]_vars

\* ------------------------------------------------- objects of one segment rule
\* objects constructed with segment_rule 1: run() builds every segment with
\* process_char_segment_line_safe
CharRuleInit ==
    /\ Init
    /\ cfg.segment_rule = 1

CharRuleSpec == CharRuleInit /\ [][Next]_vars

\* objects constructed with font_size 0: no size markers around the runs the
\* builders merge
NoFontInit ==
    /\ Init
    /\ cfg.font_size = 0

NoFontSpec == NoFontInit /\ [][Next]_vars

\* ------------------------------------------- one pixel through the resolver
\* the alpha values at the edges of the cases of the resolver
ResolveAlphas == {0, 1, 127, 128, 254, 255}

\* pixels of a file: every value 0..255 in each channel in turn, the alpha
\* channel included, the other channels at values with a zero or a non-zero
\* high and low hex digit
ResolvePixels(al) ==
    IF al
    THEN {<<v, 171, 15, a>> : v \in 0..255, a \in ResolveAlphas}
           \cup {<<15, v, 171, 128>> : v \in 0..255}
           \cup {<<171, 15, v, 128>> : v \in 0..255}
           \cup {<<171, 15, 240, v>> : v \in 0..255}
    ELSE {<<v, 171, 15>> : v \in 0..255}
           \cup {<<15, v, 171>> : v \in 0..255}
           \cup {<<171, 15, v>> : v \in 0..255}

\* the colour a pixel has once its r, g, b went through get_simplified_color
\* with minimal_color on
Quantized(p) ==
    [n \in 1..Len(p) |-> IF n <= 3 THEN (p[n] \div 16) * 16 ELSE p[n]]

\* files of two pixels: a pixel and the same pixel already quantized
ResolveImages ==
    UNION {{[ok |-> TRUE, alpha |-> al, w |-> 2, h |-> 1, px |-> <<<<q, Quantized(q)>>>>] :
               q \in ResolvePixels(al)} : al \in BOOLEAN}

\* custom_color as the colour dialog names it (#RRGGBB), and a #RGB string
CustomColors == {DefaultCustomColor, <<10, 11, 12>>}

\* the settings the resolver reads; one pixel per segment, no size markers
ResolveConfigs(al) ==
    {[Config([trans_opt |-> c.trans_opt, minimal_color |-> c.minimal_color,
              merge_similar |-> FALSE, alpha_threshold |-> c.alpha_threshold,
              keep_above_alpha |-> c.keep_above_alpha, space_count_arg |-> 2],
             [font_size |-> 0, segment_rule |-> 0, pixel_segment_size |-> 1,
              char_segment_size |-> 45])
         EXCEPT !.custom_color = c.custom_color] :
       c \in {d \in [trans_opt : 0..2, minimal_color : BOOLEAN,
                      alpha_threshold : {0, 128}, keep_above_alpha : BOOLEAN,
                      custom_color : CustomColors] :
                 /\ (d.trans_opt # 0 => d.custom_color = DefaultCustomColor)
                 /\ (d.alpha_threshold = 0 => d.trans_opt = 0
                                               /\ d.custom_color = DefaultCustomColor)
                 /\ (~al => d.alpha_threshold = 128 /\ d.keep_above_alpha)}}

ResolveInit ==
    /\ image \in ResolveImages \cup {Unreadable}
    /\ cfg \in ResolveConfigs(image.alpha)
    /\ pc = "new"
    /\ has_alpha = FALSE
    /\ img_w = 0
    /\ img_h = 0
    /\ pixels = <<>>
    /\ total_pixels = 0
    /\ preview = <<>>
    /\ current_x = 0
    /\ current_y = 0
    /\ total_processed_pixels = 0
    /\ line_segment_counter = <<>>
    /\ final_segments = <<>>
    /\ line_end_markers = <<>>
    /\ segment_line_mapping = <<>>
    /\ segment_labels = <<>>
    /\ seg_pixel_counts = <<>>
    /\ seg_start_x = <<>>
    /\ signals = <<>>
    /\ runs = 1
    /\ earlier = <<>>
    /\ gui = GuiStart

ResolveSpec == ResolveInit /\ [][Next]_vars

\* ---------------------------------------- both builders on the same row
\* images at most MaxRowW wide, a pixel limit that no row reaches, every
\* char_segment_size up to MaxCharLimit (a row of two blocks with full tags is
\* 52 characters long), no size markers; run() takes the char rule, the pixel
\* builder is applied to the same states
AgreeConfigs(al) ==
    {Config(c, [font_size |-> 0, segment_rule |-> 1, pixel_segment_size |-> MaxRowW,
                char_segment_size |-> n]) :
       c \in ColourConfigs(al), n \in 1..MaxCharLimit}

AgreeInit ==
    /\ image \in {im \in Images : im.w <= MaxRowW} \cup {Unreadable}
    /\ cfg \in AgreeConfigs(image.alpha)
    /\ pc = "new"
    /\ has_alpha = FALSE
    /\ img_w = 0
    /\ img_h = 0
    /\ pixels = <<>>
    /\ total_pixels = 0
    /\ preview = <<>>
    /\ current_x = 0
    /\ current_y = 0
    /\ total_processed_pixels = 0
    /\ line_segment_counter = <<>>
    /\ final_segments = <<>>
    /\ line_end_markers = <<>>
    /\ segment_line_mapping = <<>>
    /\ segment_labels = <<>>
    /\ seg_pixel_counts = <<>>
    /\ seg_start_x = <<>>
    /\ signals = <<>>
    /\ runs = 1
    /\ earlier = <<>>
    /\ gui = GuiStart

AgreeSpec == AgreeInit /\ [][Next]_vars

\* ------------------------------------------------- the window and its worker
\* the files chosen in the window: one row of equal pixels, as wide as the
\* first segment of each page up to MaxPages, or a file that cannot be opened
GuiImages ==
    {[ok |-> TRUE, alpha |-> FALSE, w |-> (k - 1) * items_per_page + 1, h |-> 1,
      px |-> <<[x \in 1..((k - 1) * items_per_page + 1) |-> <<255, 0, 0>>]>>] :
       k \in 1..MaxPages} \cup {Unreadable}

\* the settings in the window: the pixel rule with one pixel per segment
GuiConfig ==
    Config([trans_opt |-> 0, minimal_color |-> FALSE, merge_similar |-> FALSE,
            alpha_threshold |-> 128, keep_above_alpha |-> TRUE, space_count_arg |-> 0],
           [font_size |-> 0, segment_rule |-> 0, pixel_segment_size |-> 1,
            char_segment_size |-> 45])

\* the window is open and no worker has been created
GuiInit ==
    /\ image = Unreadable
    /\ cfg = GuiConfig
    /\ pc = "idle"
    /\ has_alpha = FALSE
    /\ img_w = 0
    /\ img_h = 0
    /\ pixels = <<>>
    /\ total_pixels = 0
    /\ preview = <<>>
    /\ current_x = 0
    /\ current_y = 0
    /\ total_processed_pixels = 0
    /\ line_segment_counter = <<>>
    /\ final_segments = <<>>
    /\ line_end_markers = <<>>
    /\ segment_line_mapping = <<>>
    /\ segment_labels = <<>>
    /\ seg_pixel_counts = <<>>
    /\ seg_start_x = <<>>
    /\ signals = <<>>
    /\ runs = 1
    /\ earlier = <<>>
    /\ gui = GuiStart

\* process_img, run by a click on the enabled start button: without a file at
\* the path it returns after the warning; otherwise it clears the result area,
\* constructs a worker for the file and the settings, disables the buttons and
\* starts the worker
process_img ==
    /\ gui.process_btn
    /\ \E exists \in BOOLEAN :
          IF ~exists THEN UNCHANGED vars
          ELSE /\ image' \in GuiImages
               /\ cfg' = GuiConfig
               /\ pc' = "new"
               /\ has_alpha' = FALSE
               /\ img_w' = 0
               /\ img_h' = 0
               /\ pixels' = <<>>
               /\ total_pixels' = 0
               /\ preview' = <<>>
               /\ current_x' = 0
               /\ current_y' = 0
               /\ total_processed_pixels' = 0
               /\ line_segment_counter' = <<>>
               /\ final_segments' = <<>>
               /\ line_end_markers' = <<>>
               /\ segment_line_mapping' = <<>>
               /\ segment_labels' = <<>>
               /\ seg_pixel_counts' = <<>>
               /\ seg_start_x' = <<>>
               /\ signals' = <<>>
               /\ runs' = 1
               /\ earlier' = <<>>
               /\ gui' = [disable_buttons(clear_results(gui))
                             EXCEPT !.delivered = 0, !.in_flight = gui.in_flight + 1]

\* the thread variables, which the slots of the window leave alone
worker == <<cfg, image, pc, has_alpha, img_w, img_h, pixels, total_pixels, preview,
            current_x, current_y, total_processed_pixels, line_segment_counter,
            final_segments, line_end_markers, segment_line_mapping, segment_labels,
            seg_pixel_counts, seg_start_x, signals, runs, earlier>>

\* the next signal of the worker reaches its slot in the window
NextSignal == signals[gui.delivered + 1]

UpdateProgress ==
    /\ gui.delivered < Len(signals)
    /\ NextSignal.sig = "progress"
    /\ gui' = [update_progress(gui, NextSignal.val) EXCEPT !.delivered = gui.delivered + 1]
    /\ UNCHANGED worker

OnFinish ==
    /\ gui.delivered < Len(signals)
    /\ NextSignal.sig = "finished"
    /\ gui' = [on_finish(gui, final_segments)
                  EXCEPT !.delivered = gui.delivered + 1,
                         !.in_flight = gui.in_flight - 1, !.last = "finished"]
    /\ UNCHANGED worker

OnError ==
    /\ gui.delivered < Len(signals)
    /\ NextSignal.sig = "error"
    /\ gui' = [on_error(gui)
                  EXCEPT !.delivered = gui.delivered + 1,
                         !.in_flight = gui.in_flight - 1, !.last = "error"]
    /\ UNCHANGED worker

\* a click on the enabled previous-page button
ClickPrev ==
    /\ gui.prev_btn
    /\ gui' = prev_page(gui)
    /\ UNCHANGED worker

\* a click on the enabled next-page button
ClickNext ==
    /\ gui.next_btn
    /\ gui' = next_page(gui)
    /\ UNCHANGED worker

\* the page number is edited to another value of its range
EditPageSpin ==
    /\ \E v \in 1..Min(gui.spin_max, MaxPages) :
          /\ v # gui.page_spin
          /\ gui' = on_page_spin_changed([gui EXCEPT !.page_spin = v], v)
    /\ UNCHANGED worker

GuiNext ==
    \/ process_img
    \/ Next
    \/ UpdateProgress
    \/ OnFinish
    \/ OnError
    \/ ClickPrev
    \/ ClickNext
    \/ EditPageSpin

GuiSpec == GuiInit /\ [][GuiNext]_vars

\* ------------------------------------------------------- reading the output
RECURSIVE SumSeq(_)
SumSeq(s) == IF s = <<>> THEN 0 ELSE s[1] + SumSeq(Tail(s))

Repeat(v, n) == [i \in 1..n |-> v]

\* the pixel tokens a markup string holds, run block by run block
RECURSIVE Decode(_)
Decode(s) ==
    IF s = <<>> THEN <<>>
    ELSE LET q == s[1]
             here == CASE q.k = "color" -> Repeat(q.tag, q.n)
                       [] q.k = "space" -> Repeat(None, q.n \div cfg.space_count)
                       [] q.k = "glyph" -> Repeat(None, q.n)
                       [] OTHER -> <<>>
         IN here \o Decode(Tail(s))

\* the colour a tag stands for, one hex digit d per channel standing for 16*d
\* as in get_simplified_color
TagColor(tag) ==
    CASE Len(tag) = 3 -> <<tag[1] * 16, tag[2] * 16, tag[3] * 16, 255>>
      [] Len(tag) = 4 -> <<tag[1] * 16, tag[2] * 16, tag[3] * 16, tag[4] * 16>>
      [] Len(tag) = 6 -> <<tag[1] * 16 + tag[2], tag[3] * 16 + tag[4],
                           tag[5] * 16 + tag[6], 255>>
      [] OTHER -> <<tag[1] * 16 + tag[2], tag[3] * 16 + tag[4],
                    tag[5] * 16 + tag[6], tag[7] * 16 + tag[8]>>

SegIdx == 1..Len(final_segments)

FirstOfRow(i) == i = 1 \/ segment_line_mapping[i - 1] # segment_line_mapping[i]

\* the pixel of the image that is the j-th pixel of segment i
SegPixel(i, j) == PixelAt(seg_start_x[i] + j - 1, segment_line_mapping[i] - 1)

NumSizeParts(s) == Cardinality({n \in 1..Len(s) : s[n].k \in {"size_open", "size_close"}})

Outcomes(sig) == Cardinality({n \in 1..Len(signals) : signals[n].sig = sig})

ProgressValues == SelectSeq(signals, LAMBDA m : m.sig = "progress")

\* ------------------------------------------------------------------ claims

\* C1: the pixel counts of the emitted segments add up to the pixels walked so
\* far, total_processed_pixels is that sum, and a pass that finishes has walked
\* and reports exactly W*H pixels.
C1_Coverage ==
    /\ Len(seg_pixel_counts) = Len(final_segments)
    /\ pc = "rows" =>
          /\ SumSeq(seg_pixel_counts) = current_y * img_w + current_x
          /\ total_processed_pixels = SumSeq(seg_pixel_counts)
    /\ pc = "finished" =>
          /\ SumSeq(seg_pixel_counts) = img_w * img_h
          /\ total_processed_pixels = img_w * img_h
          /\ signals[Len(signals)] = [sig |-> "finished", val |-> img_w * img_h]

C1_Witness ==
    /\ pc = "finished"
    /\ img_w * img_h = MaxPixels
    /\ Len(final_segments) >= 2
    /\ \E i \in SegIdx : seg_pixel_counts[i] >= 2

\* C2: every emitted segment is a column interval of one row, the segments of a
\* row follow each other from column 0 without gap or overlap and reach column
\* W-1 when the row is complete, the run blocks of a segment decode to as many
\* tokens as it has pixels, and with merge_similar off each decoded token is the
\* token resolved for that pixel.
C2_RowReconstruction ==
    /\ \A i \in SegIdx :
          /\ segment_line_mapping[i] \in 1..img_h
          /\ seg_start_x[i] >= 0
          /\ seg_start_x[i] + seg_pixel_counts[i] <= img_w
          /\ IF FirstOfRow(i) THEN seg_start_x[i] = 0
             ELSE seg_start_x[i] = seg_start_x[i - 1] + seg_pixel_counts[i - 1]
          /\ i > 1 => segment_line_mapping[i - 1] <= segment_line_mapping[i]
          /\ (i < Len(final_segments) /\ FirstOfRow(i + 1)) =>
                /\ seg_start_x[i] + seg_pixel_counts[i] = img_w
                /\ segment_line_mapping[i + 1] = segment_line_mapping[i] + 1
          /\ Len(Decode(final_segments[i])) = seg_pixel_counts[i]
          /\ ~cfg.merge_similar =>
                \A j \in 1..seg_pixel_counts[i] :
                    Decode(final_segments[i])[j] = color_tag_of(SegPixel(i, j))
    /\ pc = "finished" =>
          /\ final_segments # <<>>
          /\ segment_line_mapping[1] = 1
          /\ segment_line_mapping[Len(final_segments)] = img_h
          /\ seg_start_x[Len(final_segments)]
               + seg_pixel_counts[Len(final_segments)] = img_w

C2_Witness ==
    /\ pc = "finished"
    /\ ~cfg.merge_similar
    /\ img_w = MaxPixels
    /\ \E i \in SegIdx : ~FirstOfRow(i)
    /\ \E i \in SegIdx :
          /\ \E j \in 1..seg_pixel_counts[i] : Decode(final_segments[i])[j] = None
          /\ \E j \in 1..seg_pixel_counts[i] : Decode(final_segments[i])[j] # None

\* C3: under the char rule a segment of two or more pixels is at most char_limit
\* characters long, size markers included.
C3_CharBudget ==
    cfg.segment_rule = 1 =>
        \A i \in SegIdx :
            seg_pixel_counts[i] >= 2 => StrLen(final_segments[i]) <= cfg.char_limit

C3_Witness ==
    /\ cfg.segment_rule = 1
    /\ cfg.font_size > 0
    /\ \E i \in SegIdx :
          /\ seg_pixel_counts[i] >= 2
          /\ seg_start_x[i] + seg_pixel_counts[i] < img_w
          /\ Len(final_segments[i]) >= 4

\* C4: under the pixel rule a segment holds at most pixel_limit pixels, and one
\* that holds fewer ends at the last column of its row.
C4_PixelBudget ==
    cfg.segment_rule = 0 =>
        \A i \in SegIdx :
            /\ seg_pixel_counts[i] <= cfg.pixel_limit
            /\ seg_pixel_counts[i] < cfg.pixel_limit =>
                  seg_start_x[i] + seg_pixel_counts[i] = img_w

C4_Witness ==
    /\ cfg.segment_rule = 0
    /\ cfg.pixel_limit = MaxPixelLimit
    /\ \E i \in SegIdx :
          /\ seg_pixel_counts[i] = cfg.pixel_limit
          /\ seg_start_x[i] + seg_pixel_counts[i] < img_w
    /\ \E i \in SegIdx : seg_pixel_counts[i] < cfg.pixel_limit

\* the first pixel of the segment about to be built is over the char budget
FirstPixelOverBudget(x, y) ==
    LET Over(p, tag) ==
            font_tag_len + add_char_count(joins_run(tag, p, None, None),
                                          below_threshold(p), tag)
              > cfg.char_limit
    IN Over(PixelAt(x, y), color_tag_of(PixelAt(x, y)))

\* C5: every segment a builder returns, and so every emitted segment, holds at
\* least one pixel and has non-empty text; a char-rule segment whose first pixel
\* is over the budget holds exactly that pixel.
C5_NoEmptySegment ==
    /\ \A i \in SegIdx :
          /\ seg_pixel_counts[i] >= 1
          /\ StrLen(final_segments[i]) >= 1
          /\ (cfg.segment_rule = 1
                /\ FirstPixelOverBudget(seg_start_x[i], segment_line_mapping[i] - 1))
               => seg_pixel_counts[i] = 1
    /\ (pc = "rows" /\ current_y < img_h /\ current_x < img_w) =>
          LET NonEmpty(res) ==
                  res.count >= 1 /\ res.segment # <<>> /\ res.x = current_x + res.count
          IN NonEmpty(IF cfg.segment_rule = 0 THEN process_pixel_segment
                      ELSE process_char_segment_line_safe)

C5_Witness ==
    /\ cfg.segment_rule = 1
    /\ \E i \in SegIdx :
          /\ FirstPixelOverBudget(seg_start_x[i], segment_line_mapping[i] - 1)
          /\ seg_pixel_counts[i] = 1
          /\ seg_start_x[i] + 1 < img_w
          /\ Decode(final_segments[i]) = <<None>>

\* C6: every emitted segment is wrapped by the size markers exactly once when a
\* font size is set, and holds no size marker otherwise.
C6_SizeWrappedOnce ==
    \A i \in SegIdx :
        LET s == final_segments[i]
        IN IF cfg.font_size > 0
           THEN /\ s[1].k = "size_open"
                /\ s[Len(s)].k = "size_close"
                /\ NumSizeParts(s) = 2
           ELSE NumSizeParts(s) = 0

\* C7: the colour in the preview raster at each encoded pixel is the colour of
\* the tag of the run the pixel was placed in, or fully transparent for a pixel
\* emitted as spaces.
C7_PreviewMirrorsMarkup ==
    \A i \in SegIdx :
        \A j \in 1..seg_pixel_counts[i] :
            LET tok == Decode(final_segments[i])[j]
                shown == preview[segment_line_mapping[i]][seg_start_x[i] + j]
            IN IF tok = None THEN shown[4] = 0 ELSE shown = TagColor(tok)

\* C8: a pixel resolved to spaces is never placed in a colour run and a pixel
\* resolved to a colour tag is never placed in a run of spaces.
C8_BlankNeverMerged ==
    \A i \in SegIdx :
        \A j \in 1..seg_pixel_counts[i] :
            (Decode(final_segments[i])[j] = None) <=> (color_tag_of(SegPixel(i, j)) = None)

\* C9: a pass emits at most one of finished and error; a pass that failed to
\* load the image or raised in a row has emitted error and not finished, a pass
\* that finished has emitted no error, and nothing is emitted before the end.
C9_OneOutcome ==
    /\ Outcomes("finished") + Outcomes("error") <= 1
    /\ pc = "error" => Outcomes("error") = 1 /\ Outcomes("finished") = 0
                         /\ signals[Len(signals)].sig = "error"
    /\ pc = "finished" => Outcomes("finished") = 1 /\ Outcomes("error") = 0
                            /\ image.ok
    /\ pc \in {"new", "rows"} => Outcomes("finished") + Outcomes("error") = 0

C9_Witness ==
    /\ pc = "error"
    /\ image.ok
    /\ Len(final_segments) >= 1
    /\ current_y >= 1

\* C10: the progress values are integers in 0..100 in non-decreasing order, one
\* per completed row, and a finished pass has emitted progress 100 immediately
\* before the finished signal.
C10_Progress ==
    /\ \A n \in 1..Len(ProgressValues) :
          /\ ProgressValues[n].val \in 0..100
          /\ n > 1 => ProgressValues[n - 1].val <= ProgressValues[n].val
    /\ pc = "rows" => Len(ProgressValues) = current_y
    /\ pc = "finished" =>
          /\ Len(signals) = img_h + 2
          /\ signals[Len(signals)].sig = "finished"
          /\ signals[Len(signals) - 1] = [sig |-> "progress", val |-> 100]
          /\ \A n \in 1..(Len(signals) - 1) : signals[n].sig = "progress"

C10_Witness ==
    /\ pc = "finished"
    /\ img_h = MaxH
    /\ \E n \in 1..Len(ProgressValues) :
          ProgressValues[n].val > 0 /\ ProgressValues[n].val < 100

\* the number of builder calls made so far: the ordinals handed out over all rows
RECURSIVE SegmentCallsUpTo(_)
SegmentCallsUpTo(line) ==
    IF line = 0 THEN 0
    ELSE (IF line \in DOMAIN line_segment_counter THEN line_segment_counter[line] ELSE 0)
           + SegmentCallsUpTo(line - 1)

\* the steps run() has left at most: one per pixel and one per row still to walk
Rank ==
    CASE pc = "new" -> (image.w + 1) * image.h + 2
      [] pc = "rows" -> (img_h - current_y) * (img_w + 1) - current_x + 1
      [] OTHER -> 0

\* C11: the pass terminates whatever limits were requested: every builder call
\* returns having moved current_x forward by at least one pixel and not past the
\* row, the row only changes at the end of a row, the number of builder calls
\* never exceeds the pixels walked (so at most W*H), every step of run() lowers
\* a non-negative rank, and a pass that has not ended always has a step to take.
C11_Terminates ==
    /\ [][ProcessSegment => (current_x' > current_x /\ current_x' <= img_w
                                /\ current_y' = current_y)]_vars
    /\ [][current_y' # current_y => (current_x = img_w /\ current_y' = current_y + 1)]_vars
    /\ [][Rank' < Rank]_vars
    /\ [](Rank >= 0)
    /\ [](pc \in {"finished", "error"} <=> Rank = 0)
    /\ [](pc = "rows" => SegmentCallsUpTo(img_h) <= current_y * img_w + current_x)
    /\ [](SegmentCallsUpTo(img_h) <= img_w * img_h)
    /\ []((pc = "rows" /\ current_y < img_h /\ current_x < img_w) =>
             LET Advances(res) == res.x > current_x /\ res.x <= img_w
             IN Advances(IF cfg.segment_rule = 0 THEN process_pixel_segment
                         ELSE process_char_segment_line_safe))

C11_Witness ==
    /\ pc = "finished"
    /\ cfg.segment_rule = 1
    /\ cfg.char_limit = 1
    /\ cfg.font_size > 0
    /\ img_w * img_h = MaxPixels
    /\ SegmentCallsUpTo(img_h) = img_w * img_h

\* the least a pixel with a colour tag adds to a segment: the shortest tag
\* (three hex digits), one glyph and the closing tag, inside the size markers
MinTaggedPixelCost == font_tag_len + TagLen(<<0, 0, 0>>) + 1 + CloseColorLen

\* a pixel of the image resolves to spaces
HasBlankPixel ==
    \E y \in 0..(img_h - 1) : \E x \in 0..(img_w - 1) : color_tag_of(PixelAt(x, y)) = None

\* C12 as claimed: under the char rule with char_limit below the cost of any
\* tagged pixel every segment holds exactly one pixel, so a finished pass has
\* W*H segments.
C12_OnePixelPerSegment ==
    (cfg.segment_rule = 1 /\ cfg.char_limit < MinTaggedPixelCost) =>
        /\ \A i \in SegIdx : seg_pixel_counts[i] = 1
        /\ pc = "finished" => Len(final_segments) = img_w * img_h

\* C12 amended: under the char rule with char_limit below the cost of any tagged
\* pixel, a segment that holds a pixel resolved to a colour tag holds exactly
\* that pixel (a segment of several pixels holds only pixels resolved to
\* spaces, within char_limit); for an image without pixels resolved to spaces
\* every segment holds one pixel and a finished pass has W*H segments.
C12_ForcedSinglePixel ==
    (cfg.segment_rule = 1 /\ cfg.char_limit < MinTaggedPixelCost) =>
        /\ \A i \in SegIdx :
              /\ (\E j \in 1..seg_pixel_counts[i] : color_tag_of(SegPixel(i, j)) # None)
                    => seg_pixel_counts[i] = 1
              /\ seg_pixel_counts[i] >= 2 => StrLen(final_segments[i]) <= cfg.char_limit
        /\ ~HasBlankPixel =>
              /\ \A i \in SegIdx : seg_pixel_counts[i] = 1
              /\ pc = "rows" => Len(final_segments) = current_y * img_w + current_x
              /\ pc = "finished" => Len(final_segments) = img_w * img_h

C12_Witness ==
    /\ pc = "finished"
    /\ cfg.segment_rule = 1
    /\ cfg.char_limit < MinTaggedPixelCost
    /\ ~HasBlankPixel
    /\ img_w * img_h = MaxPixels
    /\ img_w >= 2
    /\ Len(final_segments) = img_w * img_h

\* the segment with 1-based index i reaches the last column of its row
ReachesRowEnd(i) == seg_start_x[i] + seg_pixel_counts[i] = img_w

\* the segment with 1-based index i is listed in line_end_markers (0-based indices)
IsRowEnd(i) == \E r \in 1..Len(line_end_markers) : line_end_markers[r] = i - 1

\* C13: the segments of a row are consecutive in the emitted list, carry the
\* row number (from 1) in segment_line_mapping and in their label, and the
\* ordinals 1, 2, ... in emission order; line_end_markers holds one index per
\* completed row, in row order, that of the segment reaching column W-1 of the
\* row, and no other segment is marked; with pixel_limit 1 under the pixel rule
\* a finished pass has W segments per row with ordinals 1..W.
C13_RowsOrdinalsMarkers ==
    /\ Len(segment_line_mapping) = Len(final_segments)
    /\ Len(segment_labels) = Len(final_segments)
    /\ \A i \in SegIdx :
          /\ segment_labels[i][1] = segment_line_mapping[i]
          /\ segment_labels[i][2] = IF FirstOfRow(i) THEN 1 ELSE segment_labels[i - 1][2] + 1
          /\ IF i = 1 THEN segment_line_mapping[i] = 1
             ELSE segment_line_mapping[i] \in {segment_line_mapping[i - 1],
                                               segment_line_mapping[i - 1] + 1}
          /\ IsRowEnd(i) <=> (ReachesRowEnd(i)
                                /\ segment_line_mapping[i] <= Len(line_end_markers))
    /\ pc = "rows" => Len(line_end_markers) = current_y
    /\ pc = "finished" => Len(line_end_markers) = img_h
    /\ \A r \in 1..Len(line_end_markers) :
          /\ line_end_markers[r] + 1 \in SegIdx
          /\ segment_line_mapping[line_end_markers[r] + 1] = r
          /\ ReachesRowEnd(line_end_markers[r] + 1)
          /\ r > 1 => line_end_markers[r - 1] < line_end_markers[r]
    /\ (pc = "finished" /\ cfg.segment_rule = 0 /\ cfg.pixel_limit = 1) =>
          /\ Len(final_segments) = img_w * img_h
          /\ \A r \in 1..img_h : \A k \in 1..img_w :
                /\ segment_labels[(r - 1) * img_w + k] = <<r, k>>
                /\ IsRowEnd((r - 1) * img_w + k) <=> k = img_w

C13_Witness ==
    /\ pc = "finished"
    /\ cfg.segment_rule = 0
    /\ cfg.pixel_limit = 1
    /\ img_w = MaxPixels
    /\ segment_labels[img_w] = <<1, img_w>>
    /\ line_end_markers = <<img_w - 1>>

\* C14: a pass that finishes on an object whose run() already finished once,
\* whatever the passes in between left behind, emits the same segments, row-end
\* markers, row mapping, labels, pixel total and preview as that first pass.
C14_Deterministic ==
    (pc = "finished" /\ earlier # <<>>) => Outputs = earlier[1]

C14_Witness ==
    /\ pc = "finished"
    /\ runs = MaxRuns
    /\ earlier # <<>>
    /\ img_h = MaxH
    /\ Len(final_segments) >= 2
    /\ Outputs = earlier[1]

\* the hex digits of one channel value as the markup writes them
ChannelDigits(v) == IF cfg.minimal_color THEN <<v \div 16>> ELSE <<v \div 16, v % 16>>

RgbDigits(q) == ChannelDigits(q[1]) \o ChannelDigits(q[2]) \o ChannelDigits(q[3])

\* the text of a one-pixel segment for a pixel below the threshold, by policy
BelowThresholdText ==
    CASE cfg.trans_opt = 2 -> Spaces(cfg.space_count)
      [] cfg.trans_opt = 1 -> Block(<<0, 0, 0, 0>>, 1)
      [] OTHER ->
           Block(IF cfg.minimal_color /\ Len(cfg.custom_color) = 6
                 THEN <<(cfg.custom_color[1] * 16 + cfg.custom_color[2]) \div 16,
                        (cfg.custom_color[3] * 16 + cfg.custom_color[4]) \div 16,
                        (cfg.custom_color[5] * 16 + cfg.custom_color[6]) \div 16>>
                 ELSE cfg.custom_color, 1)

\* C15: the first pixel of the file, emitted alone in the first segment, is
\* written by the policy alone (spaces, the tag #0000, or the tag of
\* custom_color, shortened to one digit per channel when minimal_color is on
\* and custom_color is #RRGGBB) exactly when the file has alpha and the pixel's
\* alpha is below alpha_threshold; otherwise, and always for a file without
\* alpha, it is written as a colour block whose tag starts with its own r, g, b.
C15_BelowThresholdToken ==
    Len(final_segments) >= 1 =>
        IF has_alpha /\ PixelAt(0, 0)[4] < cfg.alpha_threshold
        THEN final_segments[1] = BelowThresholdText
        ELSE /\ Len(final_segments[1]) = 1
             /\ final_segments[1][1].k = "color"
             /\ final_segments[1][1].n = 1
             /\ Len(final_segments[1][1].tag) >= Len(RgbDigits(PixelAt(0, 0)))
             /\ SubSeq(final_segments[1][1].tag, 1, Len(RgbDigits(PixelAt(0, 0))))
                   = RgbDigits(PixelAt(0, 0))

C15_Witness ==
    /\ pc = "finished"
    /\ has_alpha
    /\ PixelAt(0, 0)[4] = 127
    /\ PixelAt(0, 0)[1] = 255
    /\ cfg.alpha_threshold = 128
    /\ cfg.trans_opt = 0
    /\ cfg.minimal_color
    /\ final_segments[1] = Block(<<8, 8, 8>>, 1)

\* the tag of a pixel at or above the threshold
AboveThresholdTag(q) ==
    RgbDigits(q) \o
      (IF has_alpha /\ q[4] = 0 THEN ChannelDigits(0)
       ELSE IF has_alpha /\ 0 < q[4] /\ q[4] < 255 /\ cfg.keep_above_alpha
            THEN ChannelDigits(q[4])
       ELSE <<>>)

\* C16: the first pixel of the file, when not below the threshold, is written
\* as one colour block whose tag is its r, g, b followed by a zero alpha when
\* a = 0, by its alpha when 0 < a < 255 and keep_above_alpha is on, and by
\* nothing otherwise; one hex digit v \div 16 per channel with minimal_color,
\* two digits otherwise.
C16_AboveThresholdToken ==
    (Len(final_segments) >= 1
       /\ ~(has_alpha /\ PixelAt(0, 0)[4] < cfg.alpha_threshold)) =>
        final_segments[1] = Block(AboveThresholdTag(PixelAt(0, 0)), 1)

C16_Witness ==
    /\ pc = "finished"
    /\ has_alpha
    /\ cfg.alpha_threshold = 0
    /\ ~cfg.keep_above_alpha
    /\ ~cfg.minimal_color
    /\ PixelAt(0, 0) = <<10, 171, 15, 0>>
    /\ final_segments[1] = Block(<<0, 10, 10, 11, 0, 15, 0, 0>>, 1)

\* C17: with minimal_color on, a pixel and the pixel with its r, g, b already
\* quantized, emitted in two one-pixel segments, give the same text.
C17_QuantizationIdempotent ==
    (cfg.minimal_color /\ Len(final_segments) >= 2
       /\ PixelAt(1, 0) = Quantized(PixelAt(0, 0))) =>
        final_segments[2] = final_segments[1]

C17_Witness ==
    /\ pc = "finished"
    /\ cfg.minimal_color
    /\ cfg.keep_above_alpha
    /\ has_alpha
    /\ PixelAt(0, 0) = <<31, 171, 15, 127>>
    /\ PixelAt(1, 0) = <<16, 160, 0, 127>>
    /\ cfg.alpha_threshold = 0
    /\ final_segments[2] = Block(<<1, 10, 0, 7>>, 1)

\* ---- the runs of an emitted segment
\* the colour blocks and runs of spaces of a segment, in order
RunParts(s) == SelectSeq(s, LAMBDA q : q.k \in {"color", "space", "glyph"})

\* the pixels a run part stands for
RunPixels(q) == IF q.k = "space" THEN q.n \div cfg.space_count ELSE q.n

\* the position in the segment of the pixel that opened the run holding pixel j
RECURSIVE RunStart(_, _, _)
RunStart(parts, j, first) ==
    IF parts = <<>> \/ j < first + RunPixels(parts[1]) THEN first
    ELSE RunStart(Tail(parts), j, first + RunPixels(parts[1]))

\* the pixel that opened the run holding pixel j of segment i
OpeningPixel(i, j) == SegPixel(i, RunStart(RunParts(final_segments[i]), j, 1))

\* pixel j of segment i was put in the run of pixel j - 1
JoinedRun(i, j) == RunStart(RunParts(final_segments[i]), j, 1) # j

\* the sum of the absolute channel differences, over 3 or 4 channels
DiffSum(q1, q2) ==
    Abs(q1[1] - q2[1]) + Abs(q1[2] - q2[2]) + Abs(q1[3] - q2[3])
      + (IF has_alpha THEN Abs(q1[4] - q2[4]) ELSE 0)

\* C18 as claimed: a pixel joins the open run exactly when its token is the
\* run's token, or merge_similar is on and it is within similarity_threshold
\* of the pixel that opened the run.
C18_MergeRule ==
    \A i \in SegIdx : \A j \in 2..seg_pixel_counts[i] :
        JoinedRun(i, j) <=>
            \/ color_tag_of(SegPixel(i, j)) = color_tag_of(OpeningPixel(i, j - 1))
            \/ /\ cfg.merge_similar
               /\ DiffSum(SegPixel(i, j), OpeningPixel(i, j - 1)) <= cfg.similarity_threshold

\* C18 amended: a pixel joins the open run exactly when its token is the run's
\* token, or merge_similar is on, the open run is a colour run, and the pixel is
\* within similarity_threshold of the pixel that opened the run; two adjacent
\* runs of a segment never carry the same token, and with merge_similar off
\* every pixel of a run has the run's token.
C18_MergeRuleColourRuns ==
    \A i \in SegIdx :
        /\ \A j \in 2..seg_pixel_counts[i] :
              JoinedRun(i, j) <=>
                  \/ color_tag_of(SegPixel(i, j)) = color_tag_of(OpeningPixel(i, j - 1))
                  \/ /\ cfg.merge_similar
                     /\ color_tag_of(OpeningPixel(i, j - 1)) # None
                     /\ DiffSum(SegPixel(i, j), OpeningPixel(i, j - 1))
                          <= cfg.similarity_threshold
        /\ \A n \in 2..Len(RunParts(final_segments[i])) :
              LET run == RunParts(final_segments[i])
              IN <<run[n - 1].k, run[n - 1].tag>> # <<run[n].k, run[n].tag>>
        /\ ~cfg.merge_similar =>
              \A j \in 1..seg_pixel_counts[i] :
                  color_tag_of(SegPixel(i, j)) = color_tag_of(OpeningPixel(i, j))

C18_Witness ==
    /\ cfg.merge_similar
    /\ \E i \in SegIdx :
          /\ seg_pixel_counts[i] = 3
          /\ JoinedRun(i, 2)
          /\ color_tag_of(SegPixel(i, 2)) # color_tag_of(SegPixel(i, 1))
          /\ ~JoinedRun(i, 3)

\* C19: the tag written for a run is the token of the pixel that opened it,
\* whatever was merged into it later, and every pixel of the run has that token
\* or is within similarity_threshold of the opening pixel (with merge_similar
\* on): the comparison is with the opening pixel, not with the previous one.
C19_FirstPixelWins ==
    \A i \in SegIdx : \A j \in 1..seg_pixel_counts[i] :
        /\ Decode(final_segments[i])[j] = color_tag_of(OpeningPixel(i, j))
        /\ \/ color_tag_of(SegPixel(i, j)) = color_tag_of(OpeningPixel(i, j))
           \/ /\ cfg.merge_similar
              /\ DiffSum(SegPixel(i, j), OpeningPixel(i, j)) <= cfg.similarity_threshold

\* a run of two pixels merged by similarity, followed in the row by a pixel
\* within the threshold of the second but not of the first, which is kept out
C19_Witness ==
    /\ cfg.merge_similar
    /\ cfg.segment_rule = 1
    /\ \E i \in SegIdx :
          /\ seg_pixel_counts[i] = 2
          /\ JoinedRun(i, 2)
          /\ color_tag_of(SegPixel(i, 2)) # color_tag_of(SegPixel(i, 1))
          /\ seg_start_x[i] + 2 < img_w
          /\ DiffSum(SegPixel(i, 3), SegPixel(i, 2)) <= cfg.similarity_threshold
          /\ DiffSum(SegPixel(i, 3), SegPixel(i, 1)) > cfg.similarity_threshold

\* C20: under the char rule the cost tracked for a segment (current_char_count
\* when the loop is left; for a segment made of one forced pixel, the
\* new_char_count computed for that pixel) is the length of the text returned.
C20_TrackedCost ==
    (pc = "rows" /\ current_y < img_h /\ current_x < img_w /\ cfg.segment_rule = 1) =>
        LET Tracked(res, p, tag) ==
                (IF FirstPixelOverBudget(current_x, current_y)
                 THEN font_tag_len + add_char_count(joins_run(tag, p, None, None),
                                                    below_threshold(p), tag)
                 ELSE res.chars) = StrLen(res.segment)
        IN Tracked(process_char_segment_line_safe, PixelAt(current_x, current_y),
                   color_tag_of(PixelAt(current_x, current_y)))

\* the colour in the preview raster at pixel j of segment i
Shown(i, j) == preview[segment_line_mapping[i]][seg_start_x[i] + j]

\* the encoder dropped the alpha of pixel p: the file has alpha, the switch is
\* off, p is at or above the threshold and 0 < a < 255
AlphaDropped(p) ==
    /\ has_alpha
    /\ ~cfg.keep_above_alpha
    /\ p[4] >= cfg.alpha_threshold
    /\ 0 < p[4]
    /\ p[4] < 255

\* C21: every pixel whose alpha the encoder dropped is shown with alpha 255 in
\* the preview raster, a pixel whose alpha equals alpha_threshold included.
C21_DroppedAlphaOpaque ==
    \A i \in SegIdx : \A j \in 1..seg_pixel_counts[i] :
        AlphaDropped(SegPixel(i, j)) => Shown(i, j)[4] = 255

\* C22: with merge_similar on, every pixel merged into a run is shown in the
\* preview raster with the colour shown for the pixel that opened the run (the
\* opening pixel's r, g, b, quantized with minimal_color, when the run carries a
\* plain colour), whatever its own colour and alpha.
C22_MergedShowRunColour ==
    cfg.merge_similar =>
        \A i \in SegIdx : \A j \in 2..seg_pixel_counts[i] :
            JoinedRun(i, j) =>
                /\ Shown(i, j) = Shown(i, RunStart(RunParts(final_segments[i]), j, 1))
                /\ ~below_threshold(OpeningPixel(i, j)) =>
                      SubSeq(Shown(i, j), 1, 3) =
                          get_simplified_color(OpeningPixel(i, j)[1], OpeningPixel(i, j)[2],
                                               OpeningPixel(i, j)[3])

\* C23: under the custom colour policy every pixel below the threshold, one
\* with a = 0 included, is shown in the preview raster as the opaque colour of
\* the custom colour tag (one digit per channel, standing for 16 times the
\* digit, with minimal_color).
C23_CustomColourShown ==
    cfg.trans_opt = 0 =>
        \A i \in SegIdx : \A j \in 1..seg_pixel_counts[i] :
            below_threshold(SegPixel(i, j)) =>
                Shown(i, j) = TagColor(get_custom_color_tag)

\* the pixels the run parts stand for, added up
RECURSIVE RunPixelTotal(_)
RunPixelTotal(parts) ==
    IF parts = <<>> THEN 0 ELSE RunPixels(parts[1]) + RunPixelTotal(Tail(parts))

\* the pixels of segment i before its n-th run
PixelsBefore(i, n) == RunPixelTotal(SubSeq(RunParts(final_segments[i]), 1, n - 1))

\* C24: the text of a segment between the size markers is its runs in pixel
\* order and nothing else: a colour run of n >= 1 pixels is one tag, n glyphs
\* and the closing tag, a run of n >= 1 pixels without tag is n * space_count
\* spaces, the pixels of the runs add up to the segment's pixel count, the
\* pixels of a run of spaces all resolve to spaces and, with merge_similar off,
\* the pixels of a colour run all resolve to its tag.  Two equal pixels of a
\* file without alpha give one tag with two glyphs; a single pixel with a = 0
\* replaced by spaces with space_count 2 gives two spaces.
C24_RunRendering ==
    /\ \A i \in SegIdx :
          LET run == RunParts(final_segments[i])
          IN /\ RunPixelTotal(run) = seg_pixel_counts[i]
             /\ \A n \in 1..Len(run) :
                   /\ run[n].k \in {"color", "space"}
                   /\ run[n].n >= 1
                   /\ run[n].k = "color" => run[n].tag # None
                   /\ run[n].k = "space" =>
                         /\ cfg.trans_opt = 2
                         /\ run[n].n = RunPixels(run[n]) * cfg.space_count
                   /\ \A j \in (PixelsBefore(i, n) + 1)..(PixelsBefore(i, n) + RunPixels(run[n])) :
                         /\ j <= seg_pixel_counts[i]
                         /\ run[n].k = "space" => color_tag_of(SegPixel(i, j)) = None
                         /\ (run[n].k = "color" /\ ~cfg.merge_similar) =>
                               color_tag_of(SegPixel(i, j)) = run[n].tag
    /\ (pc = "finished" /\ ~has_alpha /\ img_w = 2 /\ img_h = 1
          /\ pixels = <<(<<(<<255, 0, 0>>), (<<255, 0, 0>>)>>)>>
          /\ ~cfg.minimal_color /\ cfg.font_size = 0
          /\ (cfg.segment_rule = 0 => cfg.pixel_limit >= 2)
          /\ (cfg.segment_rule = 1 => cfg.char_limit >= 25)) =>
          /\ final_segments = <<Block(<<15, 15, 0, 0, 0, 0>>, 2)>>
          /\ line_end_markers = <<0>>
    /\ (pc = "finished" /\ has_alpha /\ img_w = 1 /\ img_h = 1
          /\ PixelAt(0, 0)[4] = 0 /\ cfg.alpha_threshold = 128
          /\ cfg.trans_opt = 2 /\ cfg.space_count = 2 /\ cfg.font_size = 0) =>
          /\ final_segments = <<Spaces(2)>>
          /\ seg_pixel_counts = <<1>>

\* a segment of a colour run of two pixels followed by a run of one pixel
\* written as two spaces
C24_Witness ==
    /\ pc = "finished"
    /\ cfg.space_count = 2
    /\ cfg.trans_opt = 2
    /\ \E i \in SegIdx :
          /\ seg_pixel_counts[i] = 3
          /\ Len(RunParts(final_segments[i])) = 2
          /\ RunParts(final_segments[i])[1].k = "color"
          /\ RunParts(final_segments[i])[1].n = 2
          /\ RunParts(final_segments[i])[2] = Spaces(2)[1]
          /\ color_tag_of(SegPixel(i, 3)) = None

RowsAlike == \A y \in 1..img_h : pixels[y] = pixels[1]

\* C26: at the start of a row, when pixel_limit is at least W and char_limit
\* at least the length of the row's markup (of every row: the rows are alike),
\* process_pixel_segment and process_char_segment_line_safe return the same
\* text, pixel count and end-of-row flag, leave the same current_x and preview,
\* and take the whole row.
C26_BuildersAgree ==
    (pc = "rows" /\ current_y < img_h /\ current_x = 0 /\ RowsAlike
       /\ cfg.pixel_limit >= img_w
       /\ cfg.char_limit >= StrLen(process_pixel_segment.segment)) =>
        LET Agree(a, b) ==
                /\ a.segment = b.segment
                /\ a.count = b.count
                /\ a.is_line_end = b.is_line_end
                /\ a.x = b.x
                /\ a.pv = b.pv
                /\ a.count = img_w
        IN Agree(process_pixel_segment, process_char_segment_line_safe)

\* C27: at most one worker is in flight; while one is, from process_img until
\* on_finish or on_error has run, the start button is disabled, so process_img
\* cannot start another; once on_finish or on_error has run the start button is
\* enabled again; after a failed pass the progress bar shows 0 and the
\* preview button is disabled.
C27_OnePassInFlight ==
    /\ gui.in_flight \in {0, 1}
    /\ gui.in_flight = 1 => ~gui.process_btn /\ ~ENABLED process_img
    /\ gui.in_flight = 0 => gui.process_btn
    /\ pc \in {"new", "rows"} => gui.in_flight = 1
    /\ gui.delivered < Len(signals) => gui.in_flight = 1
    /\ (gui.in_flight = 0 /\ gui.last = "error") =>
          /\ gui.progress_bar = 0
          /\ ~gui.preview_btn

\* a second pass is in flight, its worker in the rows, after a pass that failed
C27_Witness ==
    /\ gui.in_flight = 1
    /\ gui.last = "error"
    /\ pc = "rows"
    /\ current_x >= 1
    /\ ~gui.process_btn

\* the indices of the segments of page p of a result of n segments
PageIndices(p, n) ==
    [k \in 1..(Min(p * items_per_page + items_per_page, n) - p * items_per_page)
       |-> p * items_per_page + k - 1]

\* C28: once a pass has finished, whatever the previous-page, next-page and
\* page-number events since, total_pages is ceil(n / 5) for the n >= 1
\* segments of the result, current_page is in 0..total_pages-1, the result area
\* shows exactly the segments of page current_page, every segment is on
\* exactly one page, and prev_page on the first page and next_page on the last
\* page change nothing.
C28_Paging ==
    (gui.in_flight = 0 /\ gui.last = "finished" /\ Len(gui.results) >= 1) =>
        LET n == Len(gui.results)
        IN /\ gui.total_pages * items_per_page >= n
           /\ (gui.total_pages - 1) * items_per_page < n
           /\ gui.current_page \in 0..(gui.total_pages - 1)
           /\ gui.shown = PageIndices(gui.current_page, n)
           /\ \A i \in 0..(n - 1) :
                 Cardinality({q \in 0..(gui.total_pages - 1) :
                                \E k \in 1..Len(PageIndices(q, n)) :
                                    PageIndices(q, n)[k] = i}) = 1
           /\ gui.current_page = 0 => prev_page(gui) = gui
           /\ gui.current_page = gui.total_pages - 1 => next_page(gui) = gui

====
